---- MODULE Spec2Model ----
(***************************************************************************)
(* The in-memory storage engine of arpabet/inmemorystorage                  *)
(* (src/inmemory_storage.go, src/inmemory_factory.go) over the expiring     *)
(* table of github.com/patrickmn/go-cache.                                  *)
(*                                                                          *)
(* Time is counted in whole seconds (time.Second is one unit), a byte       *)
(* string is a sequence of bytes, and a Go []byte is either the nil slice   *)
(* or a slice with contents: the code tells the two apart (val == nil).     *)
(***************************************************************************)
EXTENDS Integers, Sequences, FiniteSets, TLC

\* ------------------------------------------------------------------ bounds
MaxTime == 3
MaxEntries == 2
MaxOthers == 1
MaxNested == 2

\* ------------------------------------------------------- program constants
\* cache.NoExpiration and cache.DefaultExpiration of go-cache; storage.NoTTL;
\* the default cleanup interval (time.Hour, in seconds).
NoExpiration == -1
DefaultExpiration == 0
NoTTL == 0
Hour == 3600

\* ------------------------------------------------------------ byte strings
\* Prefixes and keys: prefix <<>> with key <<1, 2>> and prefix <<1>> with key
\* <<2>> compose the same raw key (there is no delimiter).
Prefixes == {<<>>, <<1>>}
Keys == {<<2>>, <<1, 2>>}
Seeks == {<<>>, <<1, 2>>, <<2>>}

\* []byte values a caller passes: the nil slice, the empty non-nil slice, a
\* one-byte slice.
NilSlice == [isNil |-> TRUE, bytes |-> <<>>]
Slice(s) == [isNil |-> FALSE, bytes |-> s]
Values == {NilSlice, Slice(<<>>), Slice(<<1>>)}
Ttls == {-1, 0, 1}
Versions == {0, 1}

\* append(prefix, key...) by its value: the concatenation.
RawKey(prefix, key) == prefix \o key
RawKeys == {RawKey(p, k) : p \in Prefixes, k \in Keys}

\* strings.HasPrefix(s, p)
HasPrefix(s, p) == Len(p) =< Len(s) /\ SubSeq(s, 1, Len(p)) = p

\* Go's string comparison a >= b: byte-wise lexicographic.
RECURSIVE StrGE(_, _)
StrGE(a, b) ==
    IF b = <<>> THEN TRUE
    ELSE IF a = <<>> THEN FALSE
    ELSE IF Head(a) # Head(b) THEN Head(a) > Head(b)
    ELSE StrGE(Tail(a), Tail(b))

\* --------------------------------------------------------- the cache (table)
\* An item of the table: the stored object and its absolute expiration time
\* (0: never expires).
Item(x, e) == [Object |-> x, Expiration |-> e]

\* Item.Expired at time t.
Expired(item, t) == item.Expiration > 0 /\ t > item.Expiration

\* cache.Set(k, x, d) at time t in a cache opened with default expiration de.
cacheSet(it, k, x, d, t, de) ==
    LET d1 == IF d = DefaultExpiration THEN de ELSE d
        e == IF d1 > 0 THEN t + d1 ELSE 0
    IN [k2 \in (DOMAIN it) \cup {k} |-> IF k2 = k THEN Item(x, e) ELSE it[k2]]

\* cache.Get that hands out an item whatever its expiration time.
cacheGet_NoExpiry(it, k, t) ==
    IF k \in DOMAIN it
    THEN [obj |-> it[k].Object, ok |-> TRUE, items |-> it]
    ELSE [obj |-> NilSlice, ok |-> FALSE, items |-> it]

\* cache.Get(k) at time t: the object, whether it was found, and the table
\* the call leaves (Get removes nothing, also not an expired item).
cacheGet(it, k, t) ==
    IF k \in DOMAIN it /\ ~Expired(it[k], t)
    THEN [obj |-> it[k].Object, ok |-> TRUE, items |-> it]
    ELSE [obj |-> NilSlice, ok |-> FALSE, items |-> it]

\* cache.Delete(k)
cacheDelete(it, k) == [k2 \in (DOMAIN it) \ {k} |-> it[k2]]

\* cache.Items that hands out the whole table, expired items included.
cacheItems_All(it, t) == it

\* cache.Items() at time t: a copy of the unexpired items.
cacheItems(it, t) == [k \in {k2 \in DOMAIN it : ~Expired(it[k2], t)} |-> it[k]]

\* cache.DeleteExpired() at time t.
cacheDeleteExpired(it, t) ==
    [k \in {k2 \in DOMAIN it : ~Expired(it[k2], t)} |-> it[k]]

\* cache.Flush()
cacheFlush(it) == [k \in {} |-> Item(NilSlice, 0)]

\* ------------------------------------------------------ the engine, per call
\* encoding/gob of the table, as cache.Save writes it: every item of the
\* table, expired or not, the []byte object as its length and bytes (the
\* wire form has no nil), the expiration as it is.
gobEncode(it) ==
    [k \in DOMAIN it |-> [bytes |-> it[k].Object.bytes, Expiration |-> it[k].Expiration]]

\* encoding/gob's decoder: a []byte of length 0 decodes to the nil slice (the
\* decoder leaves the freshly allocated zero value at length 0).
gobDecode(buf) ==
    [k \in DOMAIN buf |->
        Item(IF buf[k].bytes = <<>> THEN NilSlice ELSE Slice(buf[k].bytes),
             buf[k].Expiration)]

\* cache.Save(w): what it writes.
cacheSave(it) == gobEncode(it)

\* cache.Load(r) at time t: a decoded item is added unless the table holds
\* an unexpired item under its key.
cacheLoad(it, buf, t) ==
    LET dec == gobDecode(buf)
    IN [k \in (DOMAIN it) \cup (DOMAIN dec) |->
           IF k \in DOMAIN dec /\ (k \notin DOMAIN it \/ Expired(it[k], t))
           THEN dec[k]
           ELSE it[k]]

ErrNil == "nil"
ErrNotExist == "ErrNotExist"
ErrCanceled == "ErrCanceled"

\* SetRaw that starts from cache.DefaultExpiration when ttlSeconds <= 0.
SetRaw_DefaultTtl(it, prefix, key, value, ttlSeconds, t, de) ==
    LET ttl == IF ttlSeconds > 0 THEN ttlSeconds ELSE DefaultExpiration
    IN [items |-> cacheSet(it, RawKey(prefix, key), value, ttl, t, de),
        err |-> ErrNil]

\* SetRaw(prefix, key, value, ttlSeconds)
SetRaw(it, prefix, key, value, ttlSeconds, t, de) ==
    LET ttl == IF ttlSeconds > 0 THEN ttlSeconds ELSE NoExpiration
    IN [items |-> cacheSet(it, RawKey(prefix, key), value, ttl, t, de),
        err |-> ErrNil]

\* getImpl that fails on a missing value whether required or not.
getImpl_IgnoresRequired(it, prefix, key, required, t) ==
    LET got == cacheGet(it, RawKey(prefix, key), t)
        val == IF got.ok THEN got.obj ELSE NilSlice
    IN IF val.isNil
       THEN [val |-> NilSlice, err |-> ErrNotExist, items |-> got.items]
       ELSE [val |-> val, err |-> ErrNil, items |-> got.items]

\* getImpl(prefix, key, required)
getImpl(it, prefix, key, required, t) ==
    LET got == cacheGet(it, RawKey(prefix, key), t)
        val == IF got.ok THEN got.obj ELSE NilSlice
    IN IF val.isNil /\ required
       THEN [val |-> NilSlice, err |-> ErrNotExist, items |-> got.items]
       ELSE [val |-> val, err |-> ErrNil, items |-> got.items]

\* RemoveRaw that deletes the key without its prefix.
RemoveRaw_KeyOnly(it, prefix, key) ==
    [items |-> cacheDelete(it, key), err |-> ErrNil]

\* RemoveRaw(prefix, key)
RemoveRaw(it, prefix, key) ==
    [items |-> cacheDelete(it, RawKey(prefix, key)), err |-> ErrNil]

\* CompareAndSetRaw that stores only over the version it was given (an
\* item's version being its expiration, as EnumerateRaw reports it; 0 for a
\* missing key).
CompareAndSetRaw_Checked(it, bucket, key, value, ttlSeconds, version, t, de) ==
    LET rawKey == RawKey(bucket, key)
        stored == IF rawKey \in DOMAIN it THEN it[rawKey].Expiration ELSE 0
        set == SetRaw(it, bucket, key, value, ttlSeconds, t, de)
    IN IF version = stored
       THEN [ok |-> TRUE, items |-> set.items, err |-> set.err]
       ELSE [ok |-> FALSE, items |-> it, err |-> ErrNil]

\* CompareAndSetRaw(bucket, key, value, ttlSeconds, version)
CompareAndSetRaw(it, bucket, key, value, ttlSeconds, version, t, de) ==
    LET set == SetRaw(it, bucket, key, value, ttlSeconds, t, de)
    IN [ok |-> TRUE, items |-> set.items, err |-> set.err]

\* FetchKeysRaw(prefix, batchSize): the keys it returns (a slice in the
\* order of Go's map iteration, taken here as the set of its elements).
FetchKeysRaw(it, prefix, t) ==
    [keys |-> {k \in DOMAIN cacheItems(it, t) : HasPrefix(k, prefix)}, err |-> ErrNil]

\* Compact(discardRatio)
Compact(it, t) == [items |-> cacheDeleteExpired(it, t), err |-> ErrNil]

\* Backup(w, since)
Backup(it) == [n |-> 0, buf |-> cacheSave(it), err |-> ErrNil]

\* Restore(src)
Restore(it, buf, t) == [items |-> cacheLoad(it, buf, t), err |-> ErrNil]

\* DropAll()
DropAll(it) == [items |-> cacheFlush(it), err |-> ErrNil]

\* DropWithPrefix that deletes every key under the prefix at once.
DropVisit_AtOnce(it, prefixStr, key) ==
    [k \in {k2 \in DOMAIN it : ~HasPrefix(k2, prefixStr)} |-> it[k]]

\* DropWithPrefix that deletes every key it ranges over.
DropVisit_Any(it, prefixStr, key) == cacheDelete(it, key)

\* DropWithPrefix(prefix), the loop body for one key of cache.Items().
DropVisit(it, prefixStr, key) ==
    IF HasPrefix(key, prefixStr) THEN cacheDelete(it, key) ELSE it

\* EnumerateRaw that filters by the prefix alone.
EnumMatch_NoSeek(key, prefixStr, seekStr) == HasPrefix(key, prefixStr)

\* EnumerateRaw: the loop's condition on a key (every object of this engine
\* is a []byte, so the type assertion holds).
EnumMatch(key, prefixStr, seekStr) ==
    HasPrefix(key, prefixStr) /\ StrGE(key, seekStr)

\* EnumerateRaw: the storage.RawEntry built for a matching item.
EnumEntry(key, item, onlyKeys) ==
    [Key |-> key,
     Value |-> item.Object,
     Ttl |-> item.Expiration,
     Version |-> item.Expiration]

\* EnumerateRaw that goes on after the consumer returned false.
EnumVisit_NoBreak(c, key, cont) ==
    IF EnumMatch(key, c.prefix, c.seek)
    THEN [c EXCEPT !.pending = @ \ {key},
                   !.snap = [k \in (DOMAIN @) \ {key} |-> @[k]],
                   !.calls = Append(@, [entry |-> EnumEntry(key, c.snap[key], c.onlyKeys),
                                        cont |-> cont])]
    ELSE [c EXCEPT !.pending = @ \ {key},
                   !.snap = [k \in (DOMAIN @) \ {key} |-> @[k]]]

\* EnumerateRaw, the loop body for one key of cache.Items(): c is the walk
\* so far, cont is what the consumer returns if it is invoked.
EnumVisit(c, key, cont) ==
    IF EnumMatch(key, c.prefix, c.seek)
    THEN [c EXCEPT !.pending = @ \ {key},
                   !.snap = [k \in (DOMAIN @) \ {key} |-> @[k]],
                   !.calls = Append(@, [entry |-> EnumEntry(key, c.snap[key], c.onlyKeys),
                                        cont |-> cont]),
                   !.stopped = ~cont]
    ELSE [c EXCEPT !.pending = @ \ {key},
                   !.snap = [k \in (DOMAIN @) \ {key} |-> @[k]]]

\* DoInTransaction up to the callback: the raw entry handed to the mutator.
\* shared: entry.Value is the cached slice itself (rawEntry.Value = b), so
\* its bytes are the table's.
TxLoad(it, prefix, key, t) ==
    LET rawKey == RawKey(prefix, key)
        got == cacheGet(it, rawKey, t)
    IN [entry |-> [Key |-> rawKey,
                   Value |-> IF got.ok THEN got.obj ELSE NilSlice,
                   Ttl |-> NoTTL,
                   Version |-> 0],
        shared |-> got.ok /\ ~got.obj.isNil,
        items |-> got.items]

\* DoInTransaction that stores whatever ttl the mutator left as no expiration.
TxStore_NoTtl(it, entry, ok, t, de) ==
    IF ~ok
    THEN [items |-> it, err |-> ErrCanceled]
    ELSE [items |-> cacheSet(it, entry.Key, entry.Value, NoExpiration, t, de),
          err |-> ErrNil]

\* DoInTransaction that stores only when the key has no live item (cache.Add).
TxStore_Add(it, entry, ok, t, de) ==
    IF ~ok
    THEN [items |-> it, err |-> ErrCanceled]
    ELSE IF cacheGet(it, entry.Key, t).ok
    THEN [items |-> it, err |-> ErrNil]
    ELSE [items |-> cacheSet(it, entry.Key, entry.Value, NoExpiration, t, de),
          err |-> ErrNil]

\* DoInTransaction after the callback returned ok with the entry as the
\* mutator left it.
TxStore(it, entry, ok, t, de) ==
    IF ~ok
    THEN [items |-> it, err |-> ErrCanceled]
    ELSE LET ttl == IF entry.Ttl > 0 THEN entry.Ttl ELSE NoExpiration
         IN [items |-> cacheSet(it, entry.Key, entry.Value, ttl, t, de),
             err |-> ErrNil]

\* ------------------------------------------------------------------- state
VARIABLES
    now,                \* the clock, in seconds
    defaultExpiration,  \* the cache's default expiration (Config)
    cleanupInterval,    \* the janitor's interval (Config); 0: no janitor
    items,              \* the cache's table: raw key -> item
    call,               \* the call in progress that takes several steps
    ret                 \* the last call that returned: its key and result

vars == <<now, defaultExpiration, cleanupInterval, items, call, ret>>
conf == <<defaultExpiration, cleanupInterval>>

Ret(op, key, val, err) == [op |-> op, key |-> key, val |-> val, err |-> err]
NoRet == Ret("none", <<>>, NilSlice, ErrNil)
NoCall == [op |-> "none"]

\* The model admits a new key only while the table holds fewer than
\* MaxEntries items.
Room(k) == k \in DOMAIN items \/ Cardinality(DOMAIN items) < MaxEntries

\* Config: the default (no expiration, hourly cleanup), and one set by
\* options (a default expiration of a second, no janitor).
Configs ==
    {[DefaultExpiration |-> NoExpiration, CleanupInterval |-> Hour],
     [DefaultExpiration |-> 1, CleanupInterval |-> 0]}

\* OpenDatabase(options...): the configuration, then cache.New.
Init ==
    /\ now = 1
    /\ \E c \in Configs :
           /\ defaultExpiration = c.DefaultExpiration
           /\ cleanupInterval = c.CleanupInterval
    /\ items = [k \in {} |-> Item(NilSlice, 0)]
    /\ call = NoCall
    /\ ret = NoRet

\* OpenDatabase() with no options: the defaults of the configuration.
InitDefault ==
    /\ Init
    /\ defaultExpiration = NoExpiration
    /\ cleanupInterval = Hour

\* What another caller's operation does to the call in progress; it2 is the
\* table it leaves and wrote are the keys it stored. The call counts it; a
\* drop is no longer free of writers (clean); a transaction's entry no longer
\* shares its bytes with the table once its key's item is replaced or
\* deleted, and its load is stale once another caller stored its key.
Disturb(c, it2, wrote) ==
    IF c.op = "Drop" THEN [c EXCEPT !.others = @ + 1, !.clean = @ /\ wrote = {}]
    ELSE IF c.op = "Tx"
    THEN [c EXCEPT !.others = @ + 1,
                   !.shared = @ /\ c.entry.Key \notin wrote
                                /\ c.entry.Key \in DOMAIN it2,
                   !.stale = @ \/ c.entry.Key \in wrote]
    ELSE c

\* Another caller's operation may run between the steps of a drop or of a
\* transaction in progress, at most MaxOthers of them during one call; in
\* the model a walk runs with the clock as its only company, and so does
\* the table while its snapshot is carried to another engine.
Free ==
    IF call.op = "none" THEN TRUE
    ELSE IF call.op \in {"Enum", "Backup", "Restored", "Destroyed", "Keys", "Cb"} THEN FALSE
    ELSE call.others < MaxOthers

\* Time passes.
Tick ==
    /\ now < MaxTime
    /\ now' = now + 1
    /\ ret' = NoRet
    /\ UNCHANGED <<conf, items, call>>

\* Destroy(): returns nil; the caller makes no call on the engine after it.
Destroy ==
    /\ call.op = "none"
    /\ call' = [op |-> "Destroyed"]
    /\ ret' = Ret("Destroy", <<>>, NilSlice, ErrNil)
    /\ UNCHANGED <<now, conf, items>>

\* The janitor's sweep (cache.New starts it when the interval is positive;
\* nothing in the engine stops it).
Janitor ==
    /\ cleanupInterval > 0
    /\ IF call.op = "Destroyed" THEN TRUE ELSE Free
    /\ items' = cacheDeleteExpired(items, now)
    /\ call' = Disturb(call, items', {})
    /\ ret' = NoRet
    /\ UNCHANGED <<now, conf>>

Set ==
    \E p \in Prefixes, k \in Keys, v \in Values, ttl \in Ttls :
        LET r == SetRaw(items, p, k, v, ttl, now, defaultExpiration)
        IN /\ Free
           /\ Room(RawKey(p, k))
           /\ items' = r.items
           /\ call' = Disturb(call, items', {RawKey(p, k)})
           /\ ret' = Ret("Set", <<>>, NilSlice, r.err)
           /\ UNCHANGED <<now, conf>>

Get ==
    \E p \in Prefixes, k \in Keys, required \in BOOLEAN :
        LET r == getImpl(items, p, k, required, now)
        IN /\ Free
           /\ items' = r.items
           /\ call' = Disturb(call, items', {})
           /\ ret' = Ret("Get", RawKey(p, k), r.val, r.err)
           /\ UNCHANGED <<now, conf>>

CompareAndSet ==
    \E p \in Prefixes, k \in Keys, v \in Values, ttl \in Ttls, version \in Versions :
        LET r == CompareAndSetRaw(items, p, k, v, ttl, version, now, defaultExpiration)
        IN /\ Free
           /\ Room(RawKey(p, k))
           /\ items' = r.items
           /\ call' = Disturb(call, items', {RawKey(p, k)})
           /\ ret' = [op |-> "CompareAndSet", key |-> RawKey(p, k), val |-> v,
                      err |-> r.err, ok |-> r.ok, version |-> version]
           /\ UNCHANGED <<now, conf>>

Remove ==
    \E p \in Prefixes, k \in Keys :
        LET r == RemoveRaw(items, p, k)
        IN /\ Free
           /\ items' = r.items
           /\ call' = Disturb(call, items', {})
           /\ ret' = Ret("Remove", <<>>, NilSlice, r.err)
           /\ UNCHANGED <<now, conf>>

CompactNow ==
    LET r == Compact(items, now)
    IN /\ Free
       /\ items' = r.items
       /\ call' = Disturb(call, items', {})
       /\ ret' = Ret("Compact", <<>>, NilSlice, r.err)
       /\ UNCHANGED <<now, conf>>

DropAllNow ==
    LET r == DropAll(items)
    IN /\ Free
       /\ items' = r.items
       /\ call' = Disturb(call, items', {})
       /\ ret' = Ret("DropAll", <<>>, NilSlice, r.err)
       /\ UNCHANGED <<now, conf>>

\* ---- Backup into a buffer, Restore of the buffer into a fresh engine
BackupNow ==
    LET r == Backup(items)
    IN /\ call.op = "none"
       /\ call' = [op |-> "Backup", buf |-> r.buf]
       /\ ret' = Ret("Backup", <<>>, NilSlice, r.err)
       /\ UNCHANGED <<now, conf, items>>

\* New(name) and Restore(src) on it: fresh is the second engine's table.
RestoreFresh ==
    LET r == Restore(cacheFlush(items), call.buf, now)
    IN /\ call.op = "Backup"
       /\ call' = [op |-> "Restored", buf |-> call.buf, fresh |-> r.items]
       /\ ret' = Ret("Restore", <<>>, NilSlice, r.err)
       /\ UNCHANGED <<now, conf, items>>

\* The buffer and the second engine are let go.
SnapEnd ==
    /\ call.op = "Restored"
    /\ call' = NoCall
    /\ ret' = NoRet
    /\ UNCHANGED <<now, conf, items>>

\* ---- Two callers that pass the same prefix buffer, one step per statement
\* The callers, what they call, and the buffer's spare capacity: the bytes of
\* the prefix's backing array past its length, enough for every key of Keys,
\* so that append(prefix, key...) writes the key there and returns a slice
\* of the same array.
Callers == {1, 2}
Kinds == {"Set", "Get", "Remove"}
Spare == <<0, 0>>

\* append(prefix, key...) in place: the array's bytes past the prefix.
AppendInPlace(spare, key) ==
    [i \in 1 .. Len(spare) |-> IF i =< Len(key) THEN key[i] ELSE spare[i]]

\* The bytes a caller's rawKey slice holds past the prefix when it is read
\* (string(rawKey)): those in the array now.
KeyBytes(spare, key) == SubSeq(spare, 1, Len(key))

KeysBegin ==
    \E p \in Prefixes, k1 \in Keys, k2 \in Keys, kind1 \in Kinds, kind2 \in Kinds :
        /\ call.op = "none"
        /\ k1 # k2
        /\ Cardinality(DOMAIN items) + 2 =< MaxEntries + 1
        /\ call' = [op |-> "Keys", prefix |-> p, spare |-> Spare,
                    pend |-> [c \in Callers |->
                                 [key |-> IF c = 1 THEN k1 ELSE k2,
                                  kind |-> IF c = 1 THEN kind1 ELSE kind2,
                                  pc |-> "append",
                                  addr |-> <<>>]]]
        /\ ret' = NoRet
        /\ UNCHANGED <<now, conf, items>>

\* rawKey := append(prefix, key...)
KeysAppend ==
    \E c \in Callers :
        /\ call.op = "Keys"
        /\ call.pend[c].pc = "append"
        /\ call' = [call EXCEPT !.spare = AppendInPlace(@, call.pend[c].key),
                                !.pend[c].pc = "use"]
        /\ ret' = NoRet
        /\ UNCHANGED <<now, conf, items>>

\* The cache call on string(rawKey), and the return.
KeysUse ==
    \E c \in Callers :
        LET me == call.pend[c]
            key == KeyBytes(call.spare, me.key)
            r == IF me.kind = "Set"
                 THEN SetRaw(items, call.prefix, key, Slice(<<1>>), NoTTL, now, defaultExpiration)
                 ELSE IF me.kind = "Remove"
                 THEN RemoveRaw(items, call.prefix, key)
                 ELSE getImpl(items, call.prefix, key, FALSE, now)
        IN /\ call.op = "Keys"
           /\ me.pc = "use"
           /\ items' = r.items
           /\ call' = [call EXCEPT !.pend[c].pc = "done",
                                   !.pend[c].addr = RawKey(call.prefix, key)]
           /\ ret' = NoRet
           /\ UNCHANGED <<now, conf>>

KeysEnd ==
    /\ call.op = "Keys"
    /\ \A c \in Callers : call.pend[c].pc = "done"
    /\ call' = NoCall
    /\ ret' = NoRet
    /\ UNCHANGED <<now, conf, items>>

\* ---- The cache's lock around each cache call, and callbacks that call back
\* The cache's sync.RWMutex: the read holds and whether it is write-held.
\* It is free whenever no cache call is under way, so the model keeps it in
\* the record of the call that is.
Unlocked == [r |-> 0, w |-> FALSE]

\* The lock a cache call takes: Get and Items read-lock, Set and Delete lock.
LockKind(cop) == IF cop \in {"Get", "Items"} THEN "r" ELSE "w"

\* Whether RLock or Lock returns at once (the mutex is not reentrant).
CanLock(mu, kind) == IF kind = "r" THEN ~mu.w ELSE ~mu.w /\ mu.r = 0

Lock(mu, kind) == IF kind = "r" THEN [mu EXCEPT !.r = @ + 1] ELSE [mu EXCEPT !.w = TRUE]

\* A cache call that returns with its lock still held.
Unlock_Kept(mu, kind) == mu

\* The cache call's unlock before it returns.
Unlock(mu, kind) == IF kind = "r" THEN [mu EXCEPT !.r = @ - 1] ELSE [mu EXCEPT !.w = FALSE]

\* DoInTransaction or EnumerateRaw (over the whole table) begins: outer is
\* the call, cop the cache call it is at, incb whether its callback is
\* running, left the engine calls the callback may still make.
CbBegin ==
    \E outer \in {"Tx", "Enum"}, p \in Prefixes, k \in Keys :
        /\ call.op = "none"
        /\ call' = [op |-> "Cb", outer |-> outer,
                    key |-> IF outer = "Tx" THEN RawKey(p, k) ELSE <<>>,
                    entry |-> [Key |-> RawKey(p, k), Value |-> NilSlice,
                               Ttl |-> NoTTL, Version |-> 0],
                    pending |-> {},
                    cop |-> IF outer = "Tx" THEN "Get" ELSE "Items",
                    incb |-> FALSE, pc |-> "acquire", mu |-> Unlocked,
                    left |-> MaxNested, err |-> ErrNil]
        /\ ret' = NoRet
        /\ UNCHANGED <<now, conf, items>>

\* The cache call takes its lock.
CbAcquire ==
    /\ call.op = "Cb"
    /\ call.pc = "acquire"
    /\ CanLock(call.mu, LockKind(call.cop))
    /\ call' = [call EXCEPT !.mu = Lock(@, LockKind(call.cop)), !.pc = "held"]
    /\ ret' = NoRet
    /\ UNCHANGED <<now, conf, items>>

\* The cache call does its work, unlocks and returns: the transaction's
\* load or store, the walk's Items, or a call the callback made on its key.
CbRelease ==
    LET mu2 == Unlock(call.mu, LockKind(call.cop))
        nested == IF call.cop = "Set"
                  THEN SetRaw(items, <<>>, call.key, Slice(<<1>>), NoTTL, now, defaultExpiration).items
                  ELSE IF call.cop = "Remove"
                  THEN RemoveRaw(items, <<>>, call.key).items
                  ELSE items
    IN /\ call.op = "Cb"
       /\ call.pc = "held"
       /\ IF call.incb
          THEN /\ items' = nested
               /\ call' = [call EXCEPT !.mu = mu2, !.pc = "cb"]
          ELSE IF call.cop = "Get"
          THEN /\ items' = items
               /\ call' = [call EXCEPT !.mu = mu2, !.pc = "cb", !.incb = TRUE,
                                       !.entry = TxLoad(items, <<>>, call.key, now).entry]
          ELSE IF call.cop = "Items"
          THEN /\ items' = items
               /\ call' = [call EXCEPT !.mu = mu2, !.pc = "next",
                                       !.pending = DOMAIN cacheItems(items, now)]
          ELSE /\ items' = TxStore(items, call.entry, TRUE, now, defaultExpiration).items
               /\ call' = [call EXCEPT !.mu = mu2, !.pc = "done"]
       /\ ret' = NoRet
       /\ UNCHANGED <<now, conf>>

\* The walk invokes the consumer for its next entry, or is through.
CbVisit ==
    /\ call.op = "Cb"
    /\ call.pc = "next"
    /\ IF call.pending = {}
       THEN call' = [call EXCEPT !.pc = "done"]
       ELSE \E k \in call.pending :
                call' = [call EXCEPT !.pc = "cb", !.incb = TRUE, !.key = k,
                                     !.pending = @ \ {k}, !.left = MaxNested]
    /\ ret' = NoRet
    /\ UNCHANGED <<now, conf, items>>

\* The callback calls Get, Set or Remove of the engine on its key.
CbNested ==
    \E kind \in Kinds :
        /\ call.op = "Cb"
        /\ call.pc = "cb"
        /\ call.left > 0
        /\ kind = "Set" => Room(call.key)
        /\ call' = [call EXCEPT !.cop = kind, !.pc = "acquire", !.left = @ - 1]
        /\ ret' = NoRet
        /\ UNCHANGED <<now, conf, items>>

\* The callback returns.
CbReturn ==
    \E ok \in BOOLEAN :
        /\ call.op = "Cb"
        /\ call.pc = "cb"
        /\ (call.outer = "Tx" /\ ok) => Room(call.key)
        /\ call' = IF call.outer = "Enum"
                   THEN [call EXCEPT !.incb = FALSE, !.pc = IF ok THEN "next" ELSE "done"]
                   ELSE IF ok
                   THEN [call EXCEPT !.incb = FALSE, !.cop = "Set", !.pc = "acquire"]
                   ELSE [call EXCEPT !.incb = FALSE, !.pc = "done", !.err = ErrCanceled]
        /\ ret' = NoRet
        /\ UNCHANGED <<now, conf, items>>

\* The outer call returns.
CbEnd ==
    /\ call.op = "Cb"
    /\ call.pc = "done"
    /\ call' = NoCall
    /\ ret' = Ret(IF call.outer = "Tx" THEN "DoInTransaction" ELSE "Enumerate",
                  call.key, NilSlice, call.err)
    /\ UNCHANGED <<now, conf, items>>

\* A step of the goroutine that runs the outer call and its callback.
CbStep ==
    \/ CbAcquire
    \/ CbRelease
    \/ CbVisit
    \/ CbNested
    \/ CbReturn
    \/ CbEnd

\* ---- DropWithPrefix, one loop iteration per step
DropBegin ==
    \E p \in Prefixes :
        /\ call.op = "none"
        /\ call' = [op |-> "Drop", prefix |-> p,
                    snap |-> DOMAIN cacheItems(items, now),
                    pending |-> DOMAIN cacheItems(items, now),
                    others |-> 0, clean |-> TRUE]
        /\ ret' = NoRet
        /\ UNCHANGED <<now, conf, items>>

DropStep ==
    \E k \in RawKeys :
        /\ call.op = "Drop"
        /\ k \in call.pending
        /\ items' = DropVisit(items, call.prefix, k)
        /\ call' = [call EXCEPT !.pending = @ \ {k}]
        /\ ret' = NoRet
        /\ UNCHANGED <<now, conf>>

DropEnd ==
    /\ call.op = "Drop"
    /\ call.pending = {}
    /\ call' = NoCall
    /\ ret' = Ret("DropWithPrefix", call.prefix, NilSlice, ErrNil)
    /\ UNCHANGED <<now, conf, items>>

FetchKeys ==
    \E p \in Prefixes :
        LET r == FetchKeysRaw(items, p, now)
        IN /\ Free
           /\ call' = Disturb(call, items, {})
           /\ ret' = [op |-> "FetchKeys", key |-> p, val |-> NilSlice, err |-> r.err,
                      keys |-> r.keys]
           /\ UNCHANGED <<now, conf, items>>

\* ---- EnumerateRaw, one loop iteration per step
EnumBegin ==
    \E p \in Prefixes, seek \in Seeks, onlyKeys \in BOOLEAN :
        /\ call.op = "none"
        /\ call' = [op |-> "Enum", prefix |-> p, seek |-> seek, onlyKeys |-> onlyKeys,
                    began |-> now,
                    snap |-> cacheItems(items, now),
                    pending |-> DOMAIN cacheItems(items, now),
                    calls |-> <<>>, stopped |-> FALSE]
        /\ ret' = NoRet
        /\ UNCHANGED <<now, conf, items>>

EnumStep ==
    \E k \in RawKeys, cont \in BOOLEAN :
        /\ call.op = "Enum"
        /\ ~call.stopped
        /\ k \in call.pending
        /\ call' = EnumVisit(call, k, cont)
        /\ ret' = NoRet
        /\ UNCHANGED <<now, conf, items>>

EnumEnd ==
    /\ call.op = "Enum"
    /\ ~(~call.stopped /\ call.pending # {})
    /\ call' = NoCall
    /\ ret' = Ret("Enumerate", call.prefix, NilSlice, ErrNil)
    /\ UNCHANGED <<now, conf, items>>

\* ---- DoInTransaction: the load, then the callback and what follows it
TxBegin ==
    \E p \in Prefixes, k \in Keys :
        LET r == TxLoad(items, p, k, now)
        IN /\ call.op = "none"
           /\ call' = [op |-> "Tx", entry |-> r.entry, shared |-> r.shared,
                       stale |-> FALSE, others |-> 0]
           /\ items' = r.items
           /\ ret' = NoRet
           /\ UNCHANGED <<now, conf>>

\* What the mutator does with the entry: leave the value, assign another
\* slice, or overwrite the bytes of the slice it was given.
Overwrites(v) == IF v.isNil \/ v.bytes = <<>> THEN {} ELSE {Slice(<<1>>), Slice(<<2>>)} \ {v}

TxFinish ==
    \E how \in {"keep", "assign", "overwrite"}, v \in Values \cup {Slice(<<2>>)},
       ttl \in Ttls, ok \in BOOLEAN :
        LET key == call.entry.Key
            old == call.entry.Value
            inPlace == how = "overwrite" /\ call.shared
            it1 == IF inPlace THEN [items EXCEPT ![key].Object = v] ELSE items
            entry == [call.entry EXCEPT !.Value = IF how = "keep" THEN old ELSE v,
                                        !.Ttl = ttl]
            r == TxStore(it1, entry, ok, now, defaultExpiration)
        IN /\ call.op = "Tx"
           /\ how = "keep" => v = old
           /\ how = "assign" => v \in Values
           /\ how = "overwrite" => v \in Overwrites(old)
           /\ ok => Room(key)
           /\ items' = r.items
           /\ call' = NoCall
           /\ ret' = Ret("DoInTransaction", key, NilSlice, r.err)
           /\ UNCHANGED <<now, conf>>

Next ==
    \/ Tick
    \/ Janitor
    \/ Set
    \/ Get
    \/ Remove
    \/ CompactNow
    \/ DropAllNow
    \/ Destroy

Spec == Init /\ [][Next]_vars

\* The writers alone.
NextCas ==
    \/ Tick
    \/ Set
    \/ CompareAndSet

SpecCas == InitDefault /\ [][NextCas]_vars

NextSnap ==
    \/ Tick
    \/ Set
    \/ BackupNow
    \/ RestoreFresh
    \/ SnapEnd

SpecSnap == InitDefault /\ [][NextSnap]_vars

NextKeys ==
    \/ Set
    \/ KeysBegin
    \/ KeysAppend
    \/ KeysUse
    \/ KeysEnd

SpecKeys == InitDefault /\ [][NextKeys]_vars

NextLock ==
    \/ Set
    \/ CbBegin
    \/ CbAcquire
    \/ CbRelease
    \/ CbVisit
    \/ CbNested
    \/ CbReturn
    \/ CbEnd

\* The goroutine of a call in progress keeps running, and a callback makes
\* finitely many calls.
SpecLock == InitDefault /\ [][NextLock]_vars /\ WF_vars(CbStep)

NextDrop ==
    \/ Tick
    \/ Set
    \/ DropBegin
    \/ DropStep
    \/ DropEnd

SpecDrop == InitDefault /\ [][NextDrop]_vars

\* A drop with a writer and a reader beside it, the clock standing still.
NextDropRead ==
    \/ Set
    \/ Get
    \/ DropBegin
    \/ DropStep
    \/ DropEnd

SpecDropRead == InitDefault /\ [][NextDropRead]_vars

NextEnum ==
    \/ Tick
    \/ Set
    \/ FetchKeys
    \/ EnumBegin
    \/ EnumStep
    \/ EnumEnd

SpecEnum == InitDefault /\ [][NextEnum]_vars

NextTx ==
    \/ Tick
    \/ Set
    \/ TxBegin
    \/ TxFinish

SpecTx == InitDefault /\ [][NextTx]_vars

\* A transaction with writers beside it, the clock standing still.
NextTxRace ==
    \/ Set
    \/ TxBegin
    \/ TxFinish

SpecTxRace == InitDefault /\ [][NextTxRace]_vars

\* ------------------------------------------------------------ the claims
\* Past the end of the clock: an item alive at every time up to Horizon
\* never expires in the model.
Horizon == MaxTime + MaxTime

\* Key k is absent for a reader at time t: not in the table, or in it with an
\* expiration time that has passed.
Lapsed(it, k, t) == it[k].Expiration > 0 /\ t > it[k].Expiration
Absent(it, k, t) == k \notin DOMAIN it \/ Lapsed(it, k, t)

\* C1: after Set(k, v, ttl) a Get(k) returns exactly v, for every value v
\* (the empty byte string included), while the ttl has not elapsed and
\* nothing has touched k: Set stores v as the entry's object, and a Get of a
\* key whose entry is in the table and has not expired returns that object
\* without error.
C1_SetThenGet ==
    /\ \A p \in Prefixes, k \in Keys, v \in Values, ttl \in Ttls :
           SetRaw(items, p, k, v, ttl, now, defaultExpiration)
               .items[RawKey(p, k)].Object = v
    /\ (ret.op = "Get" /\ ~Absent(items, ret.key, now))
           => (ret.err = ErrNil /\ ret.val = items[ret.key].Object)

\* C2: a Get of a key that is absent (never set, removed, or expired) fails
\* with NotFound when required, returns the empty result and no error when
\* not required, and leaves the table as it was.
C2_GetAbsent ==
    \A p \in Prefixes, k \in Keys, required \in BOOLEAN :
        Absent(items, RawKey(p, k), now) =>
            LET r == getImpl(items, p, k, required, now)
            IN /\ r.err = (IF required THEN ErrNotExist ELSE ErrNil)
               /\ r.val = NilSlice
               /\ r.items = items

\* A required Get of a key that was removed or never set has failed with
\* NotFound while the table holds other entries.
C2_Witness ==
    /\ ret.op = "Get"
    /\ ret.err = ErrNotExist
    /\ ret.key \notin DOMAIN items
    /\ DOMAIN items # {}

\* C3: passive expiry: an entry whose expiration time has passed and that
\* is still in the table (no sweep has removed it) is absent for every Get:
\* NotFound when required, the empty result otherwise.
C3_PassiveExpiry ==
    \A p \in Prefixes, k \in Keys :
        (RawKey(p, k) \in DOMAIN items /\ Lapsed(items, RawKey(p, k), now)) =>
            /\ getImpl(items, p, k, TRUE, now).err = ErrNotExist
            /\ getImpl(items, p, k, FALSE, now).val = NilSlice
            /\ getImpl(items, p, k, FALSE, now).err = ErrNil

\* A required Get has failed with NotFound on an entry that holds a value,
\* has expired and is still in the table.
C3_Witness ==
    /\ ret.op = "Get"
    /\ ret.err = ErrNotExist
    /\ ret.key \in DOMAIN items
    /\ Lapsed(items, ret.key, now)
    /\ ~items[ret.key].Object.isNil

\* C4: Set with ttlSeconds <= 0 stores an entry that never expires, whatever
\* the default expiration, and Set with ttlSeconds > 0 stores an entry that
\* expires at the time of the Set plus ttlSeconds.
C4_SetExpiration ==
    \A p \in Prefixes, k \in Keys, v \in Values, ttl \in Ttls :
        LET it2 == SetRaw(items, p, k, v, ttl, now, defaultExpiration).items
            rk == RawKey(p, k)
        IN /\ ttl =< 0 => \A t \in now .. Horizon : cacheGet(it2, rk, t).ok
           /\ ttl > 0 => it2[rk].Expiration = now + ttl
           /\ ttl > 0 => \A t \in now .. Horizon :
                             cacheGet(it2, rk, t).ok <=> t =< now + ttl

\* A Set with ttlSeconds <= 0 has stored a never-expiring entry in a cache
\* opened with a positive default expiration.
C4_Witness ==
    /\ ret.op = "Set"
    /\ defaultExpiration > 0
    /\ \E k \in DOMAIN items : items[k].Expiration = 0
    /\ \E k \in DOMAIN items : items[k].Expiration > 0

\* C5: Remove returns no error, removes k, changes no other entry, changes
\* nothing when k is absent, and a second Remove(k) changes nothing more.
C5_RemoveIdempotent ==
    \A p \in Prefixes, k \in Keys :
        LET r == RemoveRaw(items, p, k)
            rk == RawKey(p, k)
        IN /\ r.err = ErrNil
           /\ rk \notin DOMAIN r.items
           /\ DOMAIN r.items = (DOMAIN items) \ {rk}
           /\ \A k2 \in DOMAIN r.items : r.items[k2] = items[k2]
           /\ rk \notin DOMAIN items => r.items = items
           /\ RemoveRaw(r.items, p, k) = r

\* A Remove has returned, its key is gone and another entry is still there.
C5_Witness ==
    /\ ret.op = "Remove"
    /\ ret.err = ErrNil
    /\ Cardinality(DOMAIN items) = 1

\* C6: prefix isolation. When DropWithPrefix(p) has ranged over its whole
\* snapshot with no writer in between, no key under p is left for a reader
\* (an item under p still in the table is one that had expired before the
\* drop began and awaits the sweep); every step of the drop leaves each
\* entry whose key does not start with p as it was, value and expiration.
C6_PrefixIsolation ==
    [][ /\ (call'.op = "Drop" /\ call'.clean /\ call'.pending = {}) =>
               \A k \in DOMAIN items' :
                   HasPrefix(k, call'.prefix) => Lapsed(items', k, now')
        /\ (call.op = "Drop" /\ call'.op = "Drop" /\ call'.pending # call.pending) =>
               \A k \in RawKeys :
                   ~HasPrefix(k, call.prefix) =>
                       /\ k \in DOMAIN items <=> k \in DOMAIN items'
                       /\ k \in DOMAIN items => items'[k] = items[k]
        /\ (call.op = "none" /\ call'.op = "Drop") => items' = items
        /\ (call.op = "Drop" /\ call'.op = "none") => items' = items
      ]_vars

\* DropWithPrefix(<<1>>) has ranged over a snapshot holding <<1, 2>> and
\* <<2>>, with no writer in between: <<1, 2>> is gone and <<2>> is kept.
C6_Witness ==
    /\ call.op = "Drop"
    /\ call.clean
    /\ call.pending = {}
    /\ call.prefix = <<1>>
    /\ call.snap = {<<1, 2>>, <<2>>}
    /\ DOMAIN items = {<<2>>}

\* The keys the consumer was invoked for, in order.
CallKeys(c) == [i \in 1 .. Len(c.calls) |-> c.calls[i].entry.Key]
AllTrue(c) == \A i \in 1 .. Len(c.calls) : c.calls[i].cont

\* The keys of the table that start with prefix, are byte-wise >= seek and
\* were present for a reader at time t.
Matching(it, prefix, seek, t) ==
    {k \in DOMAIN it : HasPrefix(k, prefix) /\ StrGE(k, seek) /\ ~Lapsed(it, k, t)}

\* C7: a walk whose consumer always returns true invokes it exactly once for
\* each entry whose key starts with prefix and is >= seek, and a walk never
\* invokes it for another key, whatever the table holds (an item that had
\* expired before the walk began is not an entry for a reader).
C7_EnumerateExactly ==
    call.op = "Enum" =>
        LET want == Matching(items, call.prefix, call.seek, call.began)
            got == CallKeys(call)
        IN /\ \A i \in 1 .. Len(got) : got[i] \in want
           /\ \A i, j \in 1 .. Len(got) : got[i] = got[j] => i = j
           /\ (call.pending = {} /\ AllTrue(call)) =>
                  {got[i] : i \in 1 .. Len(got)} = want

\* A finished walk with prefix <<1>> and seek <<1, 2>> over a table holding
\* <<1, 1, 2>> and <<1, 2>> has invoked the consumer for <<1, 2>> alone.
C7_Witness ==
    /\ call.op = "Enum"
    /\ call.pending = {}
    /\ call.prefix = <<1>>
    /\ call.seek = <<1, 2>>
    /\ DOMAIN items = {<<1, 1, 2>>, <<1, 2>>}
    /\ CallKeys(call) = <<(<<1, 2>>)>>
    /\ AllTrue(call)

\* C8: once the consumer has returned false the walk does not invoke it
\* again: its next step is the return, with no error; and no step of a walk
\* changes the table.
C8_EnumerateShortCircuit ==
    [][ /\ (call.op = "Enum" /\ ~AllTrue(call) /\ call' # call) =>
               /\ call'.op = "none"
               /\ ret'.op = "Enumerate"
               /\ ret'.err = ErrNil
        /\ (call.op = "Enum" /\ call'.op = "none") => ret'.err = ErrNil
        /\ (call.op = "Enum" \/ call'.op = "Enum") => items' = items
      ]_vars

\* The consumer has returned false for the first entry it was given while
\* another matching entry is still to come.
C8_Witness ==
    /\ call.op = "Enum"
    /\ Len(call.calls) = 1
    /\ ~call.calls[1].cont
    /\ \E k \in call.pending : EnumMatch(k, call.prefix, call.seek)

\* C9: with onlyKeys set every entry record passed to the consumer carries
\* the key and no value; without it the record carries the stored value.
C9_OnlyKeys ==
    call.op = "Enum" =>
        \A i \in 1 .. Len(call.calls) :
            LET e == call.calls[i].entry
            IN /\ e.Key \in DOMAIN items
               /\ call.onlyKeys => e.Value = NilSlice
               /\ ~call.onlyKeys => e.Value = items[e.Key].Object

\* C10: a DoInTransaction whose mutator returns false fails with Canceled
\* and leaves the whole table as it was before the call, whatever the
\* mutator did with the entry it was given.
C10_CancelLeavesTable ==
    [][ /\ (call.op = "none" /\ call'.op = "Tx") => items' = items
        /\ (call.op = "Tx" /\ call'.op = "none" /\ ret'.err = ErrCanceled) =>
               items' = items
      ]_vars

\* What the mutator may leave in the entry record: a value and a ttl.
Mutated(e) ==
    {[e EXCEPT !.Value = v, !.Ttl = ttl] : v \in Values \cup {Slice(<<2>>)}, ttl \in Ttls}

\* C11: when the mutator returns true DoInTransaction returns no error and
\* the table then holds, under the target key, the value the mutator left
\* and the expiration of its ttl (now + ttl, none for ttl <= 0); every other
\* key is as the store found it.
C11_TxCommit ==
    /\ call.op = "Tx" =>
           \A e \in Mutated(call.entry) :
               LET r == TxStore(items, e, TRUE, now, defaultExpiration)
               IN /\ r.err = ErrNil
                  /\ DOMAIN r.items = DOMAIN items \cup {e.Key}
                  /\ r.items[e.Key].Object = e.Value
                  /\ r.items[e.Key].Expiration = (IF e.Ttl > 0 THEN now + e.Ttl ELSE 0)
                  /\ \A k \in DOMAIN items : k # e.Key => r.items[k] = items[k]
    /\ (ret.op = "DoInTransaction" /\ ret.err = ErrNil) =>
           /\ ret.key \in DOMAIN items
           /\ ~Lapsed(items, ret.key, now)

\* A transaction has committed a ttl next to another key's entry.
C11_Witness ==
    /\ ret.op = "DoInTransaction"
    /\ ret.err = ErrNil
    /\ items[ret.key].Expiration = now + 1
    /\ Cardinality(DOMAIN items) = 2

\* C12: DoInTransaction is not atomic. When another caller has stored the
\* key since the transaction's load, the commit still stores what the
\* mutator computed from that load (a mutator that keeps the value stores
\* the stale one), whatever the table holds under the key by then.
C12_LostUpdate ==
    (call.op = "Tx" /\ call.stale) =>
        /\ \A e \in Mutated(call.entry) :
               LET r == TxStore(items, e, TRUE, now, defaultExpiration)
               IN r.err = ErrNil /\ r.items[e.Key].Object = e.Value
        /\ TxStore(items, call.entry, TRUE, now, defaultExpiration).items[call.entry.Key].Object
               = call.entry.Value

\* Between the load and the store of a transaction another caller has set
\* the key to a value that differs from the one loaded.
C12_Witness ==
    /\ call.op = "Tx"
    /\ call.stale
    /\ call.entry.Key \in DOMAIN items
    /\ ~Lapsed(items, call.entry.Key, now)
    /\ items[call.entry.Key].Object = Slice(<<1>>)
    /\ call.entry.Value = Slice(<<>>)

\* C13: CompareAndSet never looks at the expected version. For every
\* version, table, key (present or not), value and ttl it leaves the table
\* SetRaw would leave and reports success with no error.
C13_CasIsSet ==
    /\ \A p \in Prefixes, k \in Keys, v \in Values, ttl \in Ttls, version \in Versions :
           LET c == CompareAndSetRaw(items, p, k, v, ttl, version, now, defaultExpiration)
               set == SetRaw(items, p, k, v, ttl, now, defaultExpiration)
           IN c.ok /\ c.err = ErrNil /\ c.err = set.err /\ c.items = set.items
    /\ ret.op = "CompareAndSet" =>
           /\ ret.ok
           /\ ret.err = ErrNil
           /\ ret.key \in DOMAIN items
           /\ items[ret.key].Object = ret.val

\* CompareAndSet has stored a value with expected version 1, a version no
\* item of the table ever had (an item's version is 0 or a time after 1).
C13_Witness ==
    /\ ret.op = "CompareAndSet"
    /\ ret.ok
    /\ ret.version = 1
    /\ items[ret.key].Object = Slice(<<1>>)
    /\ items[ret.key].Expiration > 0

\* C14: after Backup into a buffer and Restore of it into a fresh engine,
\* the fresh engine holds no key the source table did not hold, and Get on
\* it answers as Get on the source does, for every key and both ways of
\* asking (required or not): the same bytes and the same error.
C14_SnapshotRoundTrip ==
    call.op = "Restored" =>
        /\ DOMAIN call.fresh \subseteq DOMAIN items
        /\ \A p \in Prefixes, k \in Keys, required \in BOOLEAN :
               LET a == getImpl(items, p, k, required, now)
                   b == getImpl(call.fresh, p, k, required, now)
               IN a.err = b.err /\ a.val.bytes = b.val.bytes

\* C15: once the engine is torn down with Destroy its sweeper is stopped:
\* no later step changes the engine's table.
C15_DestroyStopsSweeper ==
    [][call.op = "Destroyed" => items' = items]_vars

\* C16: DropWithPrefix is not atomic. One step of the drop deletes at most
\* the one key it visits and leaves every key it has still to visit as it
\* was, so a drop over two or more entries under the prefix passes through
\* tables holding some of them and not the others, which a reader sees.
C16_DropNotAtomic ==
    [][ (call.op = "Drop" /\ call'.op = "Drop" /\ call'.pending # call.pending) =>
            /\ Cardinality((DOMAIN items) \ (DOMAIN items')) =< 1
            /\ (DOMAIN items) \ (DOMAIN items') \subseteq call.pending \ call'.pending
            /\ \A k \in call'.pending :
                   k \in DOMAIN items => (k \in DOMAIN items' /\ items'[k] = items[k])
      ]_vars

\* A drop of everything under <<1>> is under way over <<1, 1, 2>> and
\* <<1, 2>>: a reader has just got NotFound for one of them while the other
\* is still in the table, unexpired and yet to be visited.
C16_Witness ==
    /\ call.op = "Drop"
    /\ call.prefix = <<1>>
    /\ call.snap = {<<1, 1, 2>>, <<1, 2>>}
    /\ ret.op = "Get"
    /\ ret.err = ErrNotExist
    /\ ret.key \in call.snap
    /\ ret.key \notin DOMAIN items
    /\ \E k \in call.pending :
           k \in DOMAIN items /\ ~Lapsed(items, k, now) /\ ~items[k].Object.isNil

C18_NoOpTxIdentity ==
    (call.op = "Tx" /\ call.others = 0) =>
        LET key == call.entry.Key
            r == TxStore(items, call.entry, TRUE, now, defaultExpiration)
        IN /\ r.err = ErrNil
           /\ (~Absent(items, key, now) /\ call.entry.Value = items[key].Object) =>
                  /\ r.items[key].Object = items[key].Object
                  /\ r.items[key].Expiration = items[key].Expiration
           /\ (Absent(items, key, now) /\ call.entry.Value = NilSlice) =>
                  /\ getImpl(r.items, <<>>, key, TRUE, now).err = ErrNotExist
                  /\ getImpl(r.items, <<>>, key, FALSE, now).val = NilSlice
                  /\ key \notin FetchKeysRaw(r.items, <<>>, now).keys
                  /\ key \notin DOMAIN cacheItems(r.items, now)

\* C19: key composition is race-free. When two callers pass the same prefix
\* buffer with spare capacity and different keys, each one's operation
\* addresses the table key prefix ++ its own key.
C19_KeyCompositionRaceFree ==
    call.op = "Keys" =>
        \A c \in Callers :
            call.pend[c].pc = "done" =>
                call.pend[c].addr = call.prefix \o call.pend[c].key

\* C20: callbacks run outside the table's lock. While the mutator of
\* DoInTransaction or the consumer of Enumerate runs, the lock is free; a
\* Get, Set or Remove the callback makes on the same engine and key never
\* waits for the lock; and the outer call returns.
C20_CallbacksOutsideLock ==
    /\ []((call.op = "Cb" /\ call.pc = "cb") => call.mu = Unlocked)
    /\ []((call.op = "Cb" /\ call.pc = "acquire") =>
              CanLock(call.mu, LockKind(call.cop)))
    /\ (call.op = "Cb") ~> (call.op = "none")

\* A transaction whose mutator made all the calls it may make on its own
\* key, a Set among them, has stored and is about to return.
C20_Witness ==
    /\ call.op = "Cb"
    /\ call.outer = "Tx"
    /\ call.pc = "done"
    /\ call.left = 0
    /\ call.err = ErrNil
    /\ call.mu = Unlocked
    /\ call.key \in DOMAIN items
====
